---- MODULE Spec2Model ----
(***************************************************************************)
(* Model of wgsl_bindgen's layout-to-struct-definition algorithm:          *)
(*   wgsl_type.rs                      the alignment catalog and type maps *)
(*   quote_gen/rust_struct_builder.rs  the member fold and the builder     *)
(* A behaviour is one generation run for one shader struct: the fold over  *)
(* the members (RustStructMemberEntry::from_naga), the construction of the *)
(* builder (RustStructBuilder::from_naga) and RustStructBuilder::build.    *)
(* Option<T> is modelled as a sequence: None == <<>>, Some(x) == <<x>>.    *)
(***************************************************************************)
EXTENDS Integers, Sequences, FiniteSets, TLC

\* Largest number of members of a modelled shader struct.
MaxMembers == 3

\* Member names by position (naga_member.name).
Names == <<"a", "b", "c", "d", "e", "f">>

None == <<>>
Some(x) == <<x>>
IsSome(o) == o /= <<>>

\* naga::proc::Alignment::round_up
RoundUp(n, a) == ((n + a - 1) \div a) * a

Max(a, b) == IF a >= b THEN a ELSE b

(***************************************************************************)
(* wgsl_type.rs                                                            *)
(***************************************************************************)
WgslType ==
  { "Vec2i", "Vec3i", "Vec4i", "Vec2u", "Vec3u", "Vec4u",
    "Vec2f", "Vec3f", "Vec4f", "Vec2h", "Vec3h", "Vec4h",
    "Mat2x2f", "Mat2x3f", "Mat2x4f", "Mat3x2f", "Mat3x3f", "Mat3x4f",
    "Mat4x2f", "Mat4x3f", "Mat4x4f",
    "Mat2x2h", "Mat2x3h", "Mat2x4h", "Mat3x2h", "Mat3x3h", "Mat3x4h",
    "Mat4x2h", "Mat4x3h", "Mat4x4h" }

\* WgslType::alignment_and_size: <<alignment, size>>
alignment_and_size(t) ==
  CASE t \in {"Vec2i", "Vec2u", "Vec2f"} -> <<8, 8>>
    [] t = "Vec2h" -> <<4, 4>>
    [] t \in {"Vec3i", "Vec3u", "Vec3f"} -> <<16, 12>>
    [] t = "Vec3h" -> <<8, 6>>
    [] t \in {"Vec4i", "Vec4u", "Vec4f"} -> <<16, 16>>
    [] t = "Vec4h" -> <<8, 8>>
    [] t = "Mat2x2f" -> <<8, 16>>
    [] t = "Mat2x2h" -> <<4, 8>>
    [] t = "Mat3x2f" -> <<8, 24>>
    [] t = "Mat3x2h" -> <<4, 12>>
    [] t = "Mat4x2f" -> <<8, 32>>
    [] t = "Mat4x2h" -> <<4, 16>>
    [] t = "Mat2x3f" -> <<16, 32>>
    [] t = "Mat2x3h" -> <<8, 16>>
    [] t = "Mat3x3f" -> <<16, 48>>
    [] t = "Mat3x3h" -> <<8, 24>>
    [] t = "Mat4x3f" -> <<16, 64>>
    [] t = "Mat4x3h" -> <<8, 32>>
    [] t = "Mat2x4f" -> <<16, 32>>
    [] t = "Mat2x4h" -> <<8, 16>>
    [] t = "Mat3x4f" -> <<16, 48>>
    [] t = "Mat3x4h" -> <<8, 24>>
    [] t = "Mat4x4f" -> <<16, 64>>
    [] t = "Mat4x4h" -> <<8, 32>>

\* WgslTypeSerializeStrategy
WgslTypeSerializeStrategy == {"Bytemuck", "Encase"}

\* The type maps a generation run can be configured with.
TypeMaps == {"WgslRustTypeMap", "GlamWgslTypeMap", "NalgebraWgslTypeMap"}

\* WgslRustTypeMap::build: WgslTypeMap::default(), no variant is mapped
WgslRustTypeMap(strategy, t) == None

\* GlamWgslTypeMap::build
GlamWgslTypeMap(strategy, t) ==
  LET is_encase == strategy = "Encase" IN
  CASE t = "Vec2i" /\ is_encase -> Some("glam::IVec2")
    [] t = "Vec3i" /\ is_encase -> Some("glam::IVec3")
    [] t = "Vec4i" /\ is_encase -> Some("glam::IVec4")
    [] t = "Vec2u" /\ is_encase -> Some("glam::UVec2")
    [] t = "Vec3u" /\ is_encase -> Some("glam::UVec3")
    [] t = "Vec4u" /\ is_encase -> Some("glam::UVec4")
    [] t = "Vec2f" /\ is_encase -> Some("glam::Vec2")
    [] t = "Vec3f" -> Some("glam::Vec3A")
    [] t = "Vec4f" -> Some("glam::Vec4")
    [] t = "Mat2x2f" /\ is_encase -> Some("glam::Mat2")
    [] t = "Mat3x3f" -> Some("glam::Mat3A")
    [] t = "Mat4x4f" -> Some("glam::Mat4")
    [] OTHER -> None

\* NalgebraWgslTypeMap::build
NalgebraWgslTypeMap(strategy, t) ==
  CASE t = "Vec2i" -> Some("nalgebra::SVector<i32, 2>")
    [] t = "Vec3i" -> Some("nalgebra::SVector<i32, 3>")
    [] t = "Vec4i" -> Some("nalgebra::SVector<i32, 4>")
    [] t = "Vec2u" -> Some("nalgebra::SVector<u32, 2>")
    [] t = "Vec3u" -> Some("nalgebra::SVector<u32, 3>")
    [] t = "Vec4u" -> Some("nalgebra::SVector<u32, 4>")
    [] t = "Vec2f" -> Some("nalgebra::SVector<f32, 2>")
    [] t = "Vec3f" -> Some("nalgebra::SVector<f32, 3>")
    [] t = "Vec4f" -> Some("nalgebra::SVector<f32, 4>")
    [] t = "Mat2x2f" -> Some("nalgebra::SMatrix<f32, 2, 2>")
    [] t = "Mat2x3f" -> Some("nalgebra::SMatrix<f32, 3, 2>")
    [] t = "Mat2x4f" -> Some("nalgebra::SMatrix<f32, 4, 2>")
    [] t = "Mat3x2f" -> Some("nalgebra::SMatrix<f32, 2, 3>")
    [] t = "Mat3x3f" -> Some("nalgebra::SMatrix<f32, 3, 3>")
    [] t = "Mat3x4f" -> Some("nalgebra::SMatrix<f32, 4, 3>")
    [] t = "Mat4x2f" -> Some("nalgebra::SMatrix<f32, 2, 4>")
    [] t = "Mat4x3f" -> Some("nalgebra::SMatrix<f32, 3, 4>")
    [] t = "Mat4x4f" -> Some("nalgebra::SMatrix<f32, 4, 4>")
    [] OTHER -> None

\* WgslTypeMapBuild::build dispatched on the configured map, then indexed
\* by the variant (self[wgsl_ty]).
WgslTypeMap(opts, t) ==
  CASE opts.type_map = "WgslRustTypeMap" ->
         WgslRustTypeMap(opts.serialization_strategy, t)
    [] opts.type_map = "GlamWgslTypeMap" ->
         GlamWgslTypeMap(opts.serialization_strategy, t)
    [] opts.type_map = "NalgebraWgslTypeMap" ->
         NalgebraWgslTypeMap(opts.serialization_strategy, t)

\* RustTypeInfo(tokens, size, alignment); size is None for a runtime-sized
\* array.
RustTypeInfo(tokens, size, alignment) ==
  [tokens |-> tokens, size |-> size, alignment |-> alignment]

\* WgslTypeMapExt::get_rust_type_info
get_rust_type_info(opts, wgsl_ty) ==
  LET as == alignment_and_size(wgsl_ty)
      ty == WgslTypeMap(opts, wgsl_ty)
  IN IF ty = None THEN None
     ELSE Some(RustTypeInfo(ty[1], Some(as[2]), as[1]))

(***************************************************************************)
(* Types of the members of the modelled structs, and what the upstream     *)
(* module analyser (naga) reports for them.                                *)
(***************************************************************************)
\* f32 scalar, three f32 vectors, and array<f32> (runtime-sized).
MemberTypes == {"f32", "Vec2f", "Vec3f", "Vec4f", "RtsArray"}

\* Layouter alignment of a member type.
NagaAlignment(ty) ==
  IF ty \in WgslType THEN alignment_and_size(ty)[1] ELSE 4

\* TypeInner::size of a member type (one stride for a runtime-sized array).
NagaSize(ty) ==
  IF ty \in WgslType THEN alignment_and_size(ty)[2] ELSE 4

\* Explicit alignment attributes a member declaration may carry: none (0)
\* or @align(16).
ExplicitAlignments == {0, 16}

\* A declared member: its type and its explicit alignment attribute.
DeclaredMembers == [ty : MemberTypes, align : ExplicitAlignments]

\* Alignment of a declared member: its type's alignment, raised by an
\* explicit attribute.
NagaMemberAlignment(decl) == Max(NagaAlignment(decl.ty), decl.align)

\* Offset of the member at position i of a struct whose declared members
\* are decls, as the analyser lays it out: the end of the previous member
\* rounded up to this member's alignment.
RECURSIVE NagaOffset(_, _)
NagaOffset(decls, i) ==
  IF i = 1 THEN 0
  ELSE RoundUp(NagaOffset(decls, i - 1) + NagaSize(decls[i - 1].ty),
               NagaMemberAlignment(decls[i]))

RECURSIVE NagaStructAlignment(_, _)
NagaStructAlignment(decls, i) ==
  IF i = 0 THEN 1
  ELSE Max(NagaMemberAlignment(decls[i]),
           NagaStructAlignment(decls, i - 1))

\* naga::proc::TypeLayout of the struct.
NagaTypeLayout(decls) ==
  LET n == Len(decls)
      al == NagaStructAlignment(decls, n)
  IN [size |-> RoundUp(NagaOffset(decls, n) + NagaSize(decls[n].ty), al),
      alignment |-> al]

\* naga::StructMember list of the struct.
NagaMembers(decls) ==
  [i \in 1..Len(decls) |->
     [name |-> Names[i], ty |-> decls[i].ty,
      offset |-> NagaOffset(decls, i)]]

\* All sequences over S of length 1..n.
SeqsUpTo(S, n) == UNION {[1..k -> S] : k \in 1..n}

(***************************************************************************)
(* quote_gen::rust_type and RustTypeInfo::size_after_alignment             *)
(***************************************************************************)
\* The generic fixed-size-array representation of an unmapped vector.
FallbackTokens(t) ==
  CASE t = "Vec2f" -> "[f32; 2]"
    [] t = "Vec3f" -> "[f32; 3]"
    [] t = "Vec4f" -> "[f32; 4]"

\* rust_type(naga_module, naga_type, options)
rust_type(naga_type, opts) ==
  CASE naga_type = "f32" -> RustTypeInfo("f32", Some(4), NagaAlignment("f32"))
    [] naga_type = "RtsArray" ->
         RustTypeInfo(IF opts.serialization_strategy = "Bytemuck"
                        THEN "[f32; N]" ELSE "Vec<f32>",
                      None, NagaAlignment("RtsArray"))
    [] OTHER ->
         LET mapped == get_rust_type_info(opts, naga_type) IN
         IF IsSome(mapped) THEN mapped[1]
         ELSE RustTypeInfo(FallbackTokens(naga_type),
                           Some(alignment_and_size(naga_type)[2]),
                           NagaAlignment(naga_type))

\* RustTypeInfo::size_after_alignment
size_after_alignment(info) ==
  IF info.size = None THEN None
  ELSE Some(RoundUp(info.size[1], info.alignment))

\* core::mem::size_of::<T>() of a host representation, as the compiler of
\* the generated code evaluates it in a padding size expression.
size_of(tokens) ==
  CASE tokens = "f32" -> 4
    [] tokens = "[f32; 2]" -> 8
    [] tokens = "[f32; 3]" -> 12
    [] tokens = "[f32; 4]" -> 16
    [] tokens = "glam::Vec2" -> 8
    [] tokens = "glam::Vec3A" -> 16
    [] tokens = "glam::Vec4" -> 16
    [] tokens = "nalgebra::SVector<f32, 2>" -> 8
    [] tokens = "nalgebra::SVector<f32, 3>" -> 12
    [] tokens = "nalgebra::SVector<f32, 4>" -> 16


(***************************************************************************)
(* State                                                                   *)
(***************************************************************************)
VARIABLES
  naga_members,          \* &[StructMember]: the struct's ordered members
  layout,                \* naga::proc::TypeLayout of the struct
  options,               \* WgslBindgenOption
  is_directly_sharable,  \* from_naga's is_directly_sharable argument
  is_host_sharable,      \* RustStructBuilder::is_host_sharable
  has_rts_array,         \* RustStructBuilder::has_rts_array
  state,                 \* NagaToRustStructState: the fold's accumulator
  members,               \* RustStructBuilder::members
  pc,                    \* "fold", "panicked", "derived" or "built"
  out                    \* Option of the TokenStream that build returns

vars == <<naga_members, layout, options, is_directly_sharable,
          is_host_sharable, has_rts_array, state, members, pc, out>>

inputs == <<naga_members, layout, options, is_directly_sharable,
            is_host_sharable, has_rts_array>>

(***************************************************************************)
(* NagaToRustStructState::create_fold                                      *)
(***************************************************************************)
\* format!("0x{:X}", n): the hexadecimal digits of n, most significant first
RECURSIVE HexDigits(_)
HexDigits(n) ==
  IF n < 16 THEN <<n>> ELSE Append(HexDigits(n \div 16), n % 16)

\* The value the compiler of the generated code reads a hexadecimal literal
\* as.
RECURSIVE HexValue(_)
HexValue(digits) ==
  IF Len(digits) = 0 THEN 0
  ELSE 16 * HexValue(SubSeq(digits, 1, Len(digits) - 1)) + digits[Len(digits)]

\* let is_rsa = rust_type.size.is_none();
is_rsa_of(info) == info.size = None

\* fold_panics with the index compared to naga_members.len().
fold_panics_off_by_one(index, info) ==
  is_rsa_of(info) /\ index /= Len(naga_members)

\* if is_rsa && state.index != naga_members.len() - 1 { panic!(...) }
fold_panics(index, info) ==
  is_rsa_of(info) /\ index /= Len(naga_members) - 1

\* next_offset: the next member's offset, or layout_size for the last
\* member (index counts from 0, sequences from 1).
next_offset(index) ==
  IF index + 1 < Len(naga_members)
    THEN naga_members[index + 2].offset
    ELSE layout.size

\* let required_member_size = next_offset - current_offset;
required_member_size(index, naga_member) ==
  next_offset(index) - naga_member.offset

\* match_creates_padding with a padding created only when the required size
\* exceeds the size after alignment.
match_creates_padding_when_larger(required, info) ==
  LET sz == size_after_alignment(info) IN
  ~(IsSome(sz) /\ required <= sz[1])

\* match rust_type.size_after_alignment(): the arm that creates a padding
\* is taken unless the size after alignment is known and equals the
\* required size.
match_creates_padding(required, info) ==
  LET sz == size_after_alignment(info) IN
  ~(IsSome(sz) /\ required = sz[1])

\* RustStructMemberEntryPadding for a member: the name _pad_<member> and
\* the symbolic size  <hex literal> - core::mem::size_of::<rust_type>()
new_padding(naga_member, required, info) ==
  [pad_name |-> "_pad_" \o naga_member.name,
   pad_size_tokens |-> [member_size |-> HexDigits(required),
                        size_of |-> info.tokens]]

\* padding_for without the test of is_directly_sharable.
padding_for_any_struct(index, naga_member, info) ==
  IF is_rsa_of(info) THEN None
  ELSE LET required == required_member_size(index, naga_member) IN
       IF match_creates_padding(required, info)
         THEN Some(new_padding(naga_member, required, info))
         ELSE None

\* let padding = if is_rsa || !is_directly_sharable { None } else { ... }
padding_for(index, naga_member, info) ==
  IF is_rsa_of(info) \/ ~is_directly_sharable THEN None
  ELSE LET required == required_member_size(index, naga_member) IN
       IF match_creates_padding(required, info)
         THEN Some(new_padding(naga_member, required, info))
         ELSE None

\* The entry the fold pushes for a member.
new_entry(index, naga_member) ==
  LET info == rust_type(naga_member.ty, options) IN
  [name_ident |-> naga_member.name,
   naga_member |-> naga_member,
   naga_type |-> naga_member.ty,
   rust_type |-> info.tokens,
   is_rsa |-> is_rsa_of(info),
   padding |-> padding_for(index, naga_member, info)]

\* The fold closure on a member that does not panic.
create_fold(st, naga_member) ==
  [index |-> st.index + 1,
   members |-> Append(st.members, new_entry(st.index, naga_member))]

(***************************************************************************)
(* Actions of the derivation                                               *)
(***************************************************************************)
\* NagaToRustStructState::default()
DefaultState == [index |-> 0, members |-> <<>>]

\* The is_directly_sharable argument the caller passes to from_naga: the
\* builder's own notion of directly shareable, the Bytemuck strategy on a
\* host-shareable struct.
caller_is_directly_sharable ==
  options.serialization_strategy = "Bytemuck" /\ is_host_sharable

Init ==
  /\ \E decls \in SeqsUpTo(DeclaredMembers, MaxMembers) :
       /\ naga_members = NagaMembers(decls)
       /\ layout = NagaTypeLayout(decls)
       /\ has_rts_array =
            (\E i \in 1..Len(decls) : decls[i].ty = "RtsArray")
  /\ options \in [serialization_strategy : WgslTypeSerializeStrategy,
                  type_map : TypeMaps,
                  derive_serde : BOOLEAN]
  /\ is_host_sharable \in BOOLEAN
  /\ is_directly_sharable = caller_is_directly_sharable
  /\ state = DefaultState
  /\ members = <<>>
  /\ pc = "fold"
  /\ out = None

\* One application of the fold closure to the next member.
FoldStep ==
  /\ pc = "fold"
  /\ state.index < Len(naga_members)
  /\ LET naga_member == naga_members[state.index + 1] IN
       /\ ~fold_panics(state.index, rust_type(naga_member.ty, options))
       /\ state' = create_fold(state, naga_member)
  /\ UNCHANGED <<inputs, members, pc, out>>

\* The fold closure panics: generation aborts and nothing is returned.
FoldPanic ==
  /\ pc = "fold"
  /\ state.index < Len(naga_members)
  /\ LET naga_member == naga_members[state.index + 1] IN
       fold_panics(state.index, rust_type(naga_member.ty, options))
  /\ pc' = "panicked"
  /\ UNCHANGED <<inputs, state, members, out>>

\* RustStructMemberEntry::from_naga returns state.members and
\* RustStructBuilder::from_naga stores it in the builder.
FromNaga ==
  /\ pc = "fold"
  /\ state.index = Len(naga_members)
  /\ members' = state.members
  /\ pc' = "derived"
  /\ UNCHANGED <<inputs, state, out>>

(***************************************************************************)
(* RustStructMemberEntryPadding and RustStructMemberEntry token generators *)
(***************************************************************************)
RECURSIVE Concat(_)
Concat(seqs) ==
  IF seqs = <<>> THEN <<>> ELSE Head(seqs) \o Concat(Tail(seqs))

\* RustStructMemberEntryPadding::generate_member_instantiate
\*   #pad_name: [0; #pad_size]
pad_generate_member_instantiate(pad) ==
  [field |-> pad.pad_name, value |-> <<"zeros", pad.pad_size_tokens>>]

\* RustStructMemberEntryPadding::generate_member_definition
\*   pub #pad_name: [u8; #pad_size]
pad_generate_member_definition(pad) ==
  [kind |-> "pad", name |-> pad.pad_name, size |-> pad.pad_size_tokens]

\* RustStructMemberEntry::generate_member_instantiate
\*   #name: #other_struct_var_name.#name
generate_member_instantiate(entry, other_struct_var_name) ==
  [field |-> entry.name_ident,
   value |-> <<other_struct_var_name, entry.name_ident>>]

\* RustStructMemberEntry::generate_member_definition
\*   pub #name: #ty
generate_member_definition(entry) ==
  [name |-> entry.name_ident, ty |-> entry.rust_type]

\* RustStructMemberEntry::generate_fn_new_param
\*   #name: #ty
generate_fn_new_param(entry) ==
  [name |-> entry.name_ident, ty |-> entry.rust_type]

(***************************************************************************)
(* RustStructBuilder                                                       *)
(***************************************************************************)
\* RustStructBuilder::is_directly_shareable
is_directly_shareable ==
  options.serialization_strategy = "Bytemuck" /\ is_host_sharable

\* uses_generics_for_rts decided by has_rts_array alone.
uses_generics_for_rts_any_strategy ==
  has_rts_array

\* RustStructBuilder::uses_generics_for_rts
uses_generics_for_rts ==
  has_rts_array /\ options.serialization_strategy = "Bytemuck"

\* RustStructBuilder::uses_padding
uses_padding ==
  \E i \in 1..Len(members) : IsSome(members[i].padding)

\* struct_name_in_usage_fragment / init_struct_name_in_usage_fragment:
\* the generic arguments that follow the identifier
name_in_usage_fragment ==
  IF uses_generics_for_rts THEN "<N>" ELSE ""

\* struct_name_in_definition_fragment /
\* init_struct_name_in_definition_fragment
name_in_definition_fragment ==
  IF uses_generics_for_rts THEN "<const N: usize>" ELSE ""

\* RustStructBuilder::impl_trait_for_fragment
impl_trait_for_fragment ==
  IF uses_generics_for_rts THEN "impl<const N:usize>" ELSE "impl"

\* build_init_struct, the body of const_into: for every entry the copy of
\* the Init field, then the zero fill of its padding
init_mem_assignments ==
  Concat([i \in 1..Len(members) |->
            <<generate_member_instantiate(members[i], "self")>>
            \o [j \in 1..Len(members[i].padding) |->
                  pad_generate_member_instantiate(members[i].padding[j])]])

\* build_init_struct without the test of uses_padding.
build_init_struct_without_padding_test ==
  IF ~is_directly_shareable THEN None
  ELSE Some([name_def |-> name_in_definition_fragment,
             name_usage |-> name_in_usage_fragment,
             impl_fragment |-> impl_trait_for_fragment,
             init_struct_members |->
               [i \in 1..Len(members) |->
                  generate_member_definition(members[i])],
             mem_assignments |-> init_mem_assignments,
             from_impl |-> "const_into"])

\* RustStructBuilder::build_init_struct
build_init_struct ==
  IF ~is_directly_shareable \/ ~uses_padding THEN None
  ELSE Some([name_def |-> name_in_definition_fragment,
             name_usage |-> name_in_usage_fragment,
             impl_fragment |-> impl_trait_for_fragment,
             init_struct_members |->
               [i \in 1..Len(members) |->
                  generate_member_definition(members[i])],
             mem_assignments |-> init_mem_assignments,
             from_impl |-> "const_into"])

\* new_member_assignments without the zero fill of the paddings.
new_member_assignments_without_padding ==
  [i \in 1..Len(members) |->
     [field |-> members[i].name_ident,
      value |-> <<"param", members[i].name_ident>>]]

\* build_fn_new, the body of new: for every entry the parameter of the
\* same name (field init shorthand), then the zero fill of its padding
new_member_assignments ==
  Concat([i \in 1..Len(members) |->
            <<[field |-> members[i].name_ident,
               value |-> <<"param", members[i].name_ident>>]>>
            \o [j \in 1..Len(members[i].padding) |->
                  pad_generate_member_instantiate(members[i].padding[j])]])

\* RustStructBuilder::build_fn_new
build_fn_new ==
  [impl_fragment |-> impl_trait_for_fragment,
   name_usage |-> name_in_usage_fragment,
   non_padding_members |->
     [i \in 1..Len(members) |-> generate_fn_new_param(members[i])],
   member_assignments |-> new_member_assignments]

\* build_fields: #[size(runtime)] on a member
runtime_size_attribute(entry) ==
  entry.is_rsa /\ options.serialization_strategy = "Encase"

\* build_fields: the doc attribute of a member
field_doc(entry) ==
  IF is_directly_shareable
    THEN Some([size |-> NagaSize(entry.naga_type),
               offset |-> HexDigits(entry.naga_member.offset),
               ty_name |-> entry.naga_type])
    ELSE None

\* RustStructBuilder::build_fields: per member, its field followed by the
\* field of its padding
build_fields ==
  [i \in 1..Len(members) |->
     <<[kind |-> "member",
        name |-> members[i].name_ident,
        ty |-> members[i].rust_type,
        doc |-> field_doc(members[i]),
        runtime_size_attribute |-> runtime_size_attribute(members[i])]>>
     \o [j \in 1..Len(members[i].padding) |->
           pad_generate_member_definition(members[i].padding[j])]]

\* RustStructBuilder::build_derives
build_derives ==
  <<"Debug", "PartialEq", "Clone">>
  \o (IF options.serialization_strategy = "Bytemuck"
        THEN <<"Copy">>
        ELSE (IF ~has_rts_array THEN <<"Copy">> ELSE <<>>)
             \o <<"encase::ShaderType">>)
  \o (IF options.derive_serde
        THEN <<"serde::Serialize", "serde::Deserialize">>
        ELSE <<>>)

\* build_assert_layout: one assertion per member that
\* offset_of!(struct, name) equals the member's shader offset
assert_member_offsets ==
  [i \in 1..Len(members) |->
     [name |-> members[i].naga_member.name,
      wgsl_offset |-> members[i].naga_member.offset]]

\* build_assert_layout guarded by is_host_sharable alone.
build_assert_layout_any_strategy ==
  IF is_host_sharable
    THEN Some([struct_name |-> IF uses_generics_for_rts THEN "<1>" ELSE "",
               assert_member_offsets |-> assert_member_offsets,
               struct_size |-> layout.size])
    ELSE None

\* RustStructBuilder::build_assert_layout
build_assert_layout ==
  IF is_directly_shareable
    THEN Some([struct_name |-> IF uses_generics_for_rts THEN "<1>" ELSE "",
               assert_member_offsets |-> assert_member_offsets,
               struct_size |-> layout.size])
    ELSE None

\* build: let should_generate_padding = is_host_shareable && strategy ==
\* Bytemuck
should_generate_padding ==
  is_host_sharable /\ options.serialization_strategy = "Bytemuck"

\* repr_c with the alignment chosen by uses_padding.
repr_c_by_uses_padding ==
  IF ~has_rts_array
    THEN IF uses_padding
           THEN [repr |-> "C", align |-> Some(layout.alignment)]
           ELSE [repr |-> "C", align |-> None]
    ELSE [repr |-> "", align |-> None]

\* build: the representation attribute; alignment is layout.alignment
repr_c ==
  IF ~has_rts_array
    THEN IF should_generate_padding
           THEN [repr |-> "C", align |-> Some(layout.alignment)]
           ELSE [repr |-> "C", align |-> None]
    ELSE [repr |-> "", align |-> None]

\* unsafe #impl_fragment <trait> for #struct_name_usage {}
unsafe_impl(trait) ==
  [trait |-> trait,
   impl_fragment |-> impl_trait_for_fragment,
   name_usage |-> name_in_usage_fragment]

\* unsafe_bytemuck_pod_impl granted to host-shareable structs only.
unsafe_bytemuck_pod_impl_host_shareable_only ==
  IF should_generate_padding
    THEN <<unsafe_impl("bytemuck::Zeroable"), unsafe_impl("bytemuck::Pod")>>
    ELSE <<>>

\* build: unsafe impl bytemuck::Zeroable and bytemuck::Pod
unsafe_bytemuck_pod_impl ==
  IF options.serialization_strategy = "Bytemuck"
    THEN <<unsafe_impl("bytemuck::Zeroable"), unsafe_impl("bytemuck::Pod")>>
    ELSE <<>>

\* RustStructBuilder::build
build ==
  [repr_c |-> repr_c,
   derives |-> build_derives,
   struct_name_def |-> name_in_definition_fragment,
   fields |-> Concat(build_fields),
   struct_new_fn |-> build_fn_new,
   unsafe_bytemuck_pod_impl |-> unsafe_bytemuck_pod_impl,
   assert_layout |-> build_assert_layout,
   init_struct |-> build_init_struct]

\* RustStructBuilder::build on the constructed builder.
Build ==
  /\ pc = "derived"
  /\ out' = Some(build)
  /\ pc' = "built"
  /\ UNCHANGED <<inputs, state, members>>

Next == FoldStep \/ FoldPanic \/ FromNaga \/ Build

Spec == Init /\ [][Next]_vars

(***************************************************************************)
(* The generated code as its compiler evaluates it                         *)
(***************************************************************************)
\* Value of a padding size expression  <literal> - size_of::<T>()  in
\* usize arithmetic: None when the subtraction overflows (the constant
\* expression is rejected and the generated code does not build).
eval_pad_size(tokens) ==
  LET lit == HexValue(tokens.member_size)
      nat == size_of(tokens.size_of)
  IN IF lit >= nat THEN Some(lit - nat) ELSE None

\* Natural size of an emitted field: size_of of a member's type, the
\* evaluated length of a padding's byte array.
field_size(field) ==
  IF field.kind = "member" THEN Some(size_of(field.ty))
  ELSE eval_pad_size(field.size)

\* Sum of the natural sizes of the first k emitted fields, None when one of
\* them has no size.
RECURSIVE cumulative_size(_, _)
cumulative_size(fields, k) ==
  IF k = 0 THEN Some(0)
  ELSE LET before == cumulative_size(fields, k - 1)
           this == field_size(fields[k])
       IN IF IsSome(before) /\ IsSome(this)
            THEN Some(before[1] + this[1]) ELSE None

\* The instance a struct literal builds: every assignment's field with its
\* value, a real field read from vals, a padding as its zero-filled array.
eval_struct_literal(assignments, vals) ==
  [k \in 1..Len(assignments) |->
     [field |-> assignments[k].field,
      value |-> IF assignments[k].value[1] = "zeros"
                  THEN <<"zeros", eval_pad_size(assignments[k].value[2])>>
                  ELSE <<"value", vals[assignments[k].value[2]]>>]]

(***************************************************************************)
(* Properties                                                              *)
(***************************************************************************)
\* Values a real field takes in the instances compared below.
FieldValues == {1, 2}

\* The struct has a member of unknown size.
HasUnbounded ==
  \E i \in 1..Len(naga_members) : naga_members[i].ty = "RtsArray"

\* Gap from member i to the next member, or to the end of the struct.
Gap(i) ==
  (IF i < Len(naga_members) THEN naga_members[i + 1].offset
                            ELSE layout.size)
  - naga_members[i].offset

\* Declared shader offset of the member called name.
DeclaredOffset(name) ==
  LET i == CHOOSE j \in 1..Len(naga_members) : naga_members[j].name = name
  IN naga_members[i].offset

\* C1: for a struct without unbounded member built with directly-shareable
\* = true, every member field's cumulative host offset (the sum of the
\* natural sizes of the fields emitted before it, paddings included) equals
\* its declared shader offset, and the sum of all emitted field sizes equals
\* the struct's declared total size.
C1_HostLayoutMatchesShaderLayout ==
  (pc = "built" /\ is_directly_sharable /\ ~HasUnbounded) =>
    LET fields == out[1].fields IN
      /\ \A k \in 1..Len(fields) :
           fields[k].kind = "member" =>
             cumulative_size(fields, k - 1)
               = Some(DeclaredOffset(fields[k].name))
      /\ cumulative_size(fields, Len(fields)) = Some(layout.size)

\* C2: in a directly-shareable struct, a member that is not the unbounded
\* trailing array has a Padding Entry if and only if its host
\* representation's size after alignment differs from the gap to the next
\* member (or to the struct's total size for the last member).
C2_PaddingIffAlignedSizeDiffersFromGap ==
  \A i \in 1..Len(state.members) :
    (is_directly_sharable /\ naga_members[i].ty /= "RtsArray") =>
      (IsSome(state.members[i].padding)
         <=> size_after_alignment(rust_type(naga_members[i].ty, options))
               /= Some(Gap(i)))

C2_Witness ==
  /\ pc = "derived"
  /\ is_directly_sharable
  /\ \E i, j \in 1..Len(members) :
       /\ IsSome(members[i].padding)
       /\ ~IsSome(members[j].padding)
       /\ ~members[j].is_rsa

\* C3: an emitted Padding Entry's size equals the gap minus the natural
\* size of the member's host representation, and is strictly positive (the
\* subtraction yields neither zero nor an underflow).
C3_PaddingSizeIsGapMinusNaturalAndPositive ==
  \A i \in 1..Len(state.members) :
    IsSome(state.members[i].padding) =>
      LET natural == size_of(state.members[i].rust_type) IN
        /\ eval_pad_size(state.members[i].padding[1].pad_size_tokens)
             = Some(Gap(i) - natural)
        /\ Gap(i) - natural > 0

\* An unbounded member sits at a position other than the last.
UnboundedNotLast ==
  \E i \in 1..(Len(naga_members) - 1) : naga_members[i].ty = "RtsArray"

\* C4: with an unbounded member at a position other than the last the
\* derivation never returns an entry list: when the fold reaches that
\* member its only step is the panic, and no entry is dropped before it.
\* Otherwise it never panics, and the list it returns has one entry per
\* member in input order.
C4_UnboundedNotLastAborts ==
  /\ UnboundedNotLast =>
       (pc \in {"fold", "panicked"} /\ members = <<>> /\ out = None)
  /\ (/\ pc = "fold"
      /\ state.index + 1 < Len(naga_members)
      /\ naga_members[state.index + 1].ty = "RtsArray") =>
       (ENABLED FoldPanic /\ ~ENABLED FoldStep
          /\ Len(state.members) = state.index)
  /\ ~UnboundedNotLast => pc /= "panicked"
  /\ pc \in {"derived", "built"} =>
       /\ Len(members) = Len(naga_members)
       /\ \A i \in 1..Len(members) :
            /\ members[i].naga_member = naga_members[i]
            /\ members[i].name_ident = naga_members[i].name

C4_Witness ==
  pc = "panicked" /\ UnboundedNotLast /\ state.index >= 1

\* The layout assertions build emits are exactly one offset assertion per
\* member, in member order, and the assertion of the struct's total size.
AssertsEveryMemberAndSize(asserts) ==
  /\ Len(asserts.assert_member_offsets) = Len(naga_members)
  /\ \A i \in 1..Len(naga_members) :
       asserts.assert_member_offsets[i]
         = [name |-> naga_members[i].name,
            wgsl_offset |-> naga_members[i].offset]
  /\ asserts.struct_size = layout.size

\* C5 as stated: whenever the struct is host-shareable, under every
\* serialization strategy, build emits one offset assertion per member and
\* one total-size assertion.
C5_HostShareableAlwaysAsserted ==
  (pc = "built" /\ is_host_sharable) =>
    /\ IsSome(out[1].assert_layout)
    /\ AssertsEveryMemberAndSize(out[1].assert_layout[1])

\* C5 amended: build emits the layout assertions (one offset assertion per
\* member and one total-size assertion) exactly when the struct is
\* host-shareable and the strategy is Bytemuck; under Encase, or for a
\* struct that is not host-shareable, it emits none.
C5_AssertedIffHostShareableAndBytemuck ==
  pc = "built" =>
    IF is_host_sharable /\ options.serialization_strategy = "Bytemuck"
      THEN /\ IsSome(out[1].assert_layout)
           /\ AssertsEveryMemberAndSize(out[1].assert_layout[1])
      ELSE out[1].assert_layout = None

C5_Witness ==
  /\ pc = "built"
  /\ is_host_sharable
  /\ options.serialization_strategy = "Bytemuck"
  /\ Len(naga_members) >= 2
  /\ IsSome(out[1].assert_layout)

\* build grants the Zeroable and Pod pair.
PodGranted ==
  [k \in 1..Len(out[1].unsafe_bytemuck_pod_impl) |->
     out[1].unsafe_bytemuck_pod_impl[k].trait]
    = <<"bytemuck::Zeroable", "bytemuck::Pod">>

\* C6 as stated: the Zeroable/Pod pair is granted exactly when the strategy
\* is Bytemuck and the struct is host-shareable; a struct that is not
\* host-shareable never receives it.
C6_PodIffBytemuckAndHostShareable ==
  pc = "built" =>
    (PodGranted
       <=> (options.serialization_strategy = "Bytemuck" /\ is_host_sharable))

\* C6 amended: the Zeroable/Pod pair is granted exactly when the strategy
\* is Bytemuck, whether or not the struct is host-shareable; under Encase
\* no impl is emitted.
C6_PodIffBytemuck ==
  pc = "built" =>
    /\ PodGranted <=> options.serialization_strategy = "Bytemuck"
    /\ ~PodGranted => out[1].unsafe_bytemuck_pod_impl = <<>>

C6_Witness ==
  /\ pc = "built"
  /\ options.serialization_strategy = "Bytemuck"
  /\ ~is_host_sharable
  /\ PodGranted
  /\ out[1].assert_layout = None

\* Some derived entry carries a Padding Entry.
SomePaddingEntry ==
  \E i \in 1..Len(members) : members[i].padding /= None

\* C7 as stated: a struct with an unbounded trailing array gets no
\* representation attribute; otherwise a host-shareable struct gets repr(C)
\* with align(layout alignment) when padding is generated for it and plain
\* repr(C) when it has no padding.
C7_AlignOverrideIffPaddingGenerated ==
  pc = "built" =>
    /\ has_rts_array => out[1].repr_c = [repr |-> "", align |-> None]
    /\ (~has_rts_array /\ is_host_sharable /\ SomePaddingEntry) =>
         out[1].repr_c = [repr |-> "C", align |-> Some(layout.alignment)]
    /\ (~has_rts_array /\ is_host_sharable /\ ~SomePaddingEntry) =>
         out[1].repr_c = [repr |-> "C", align |-> None]

\* C7 amended: a struct with an unbounded trailing array gets no
\* representation attribute; otherwise a host-shareable struct under the
\* Bytemuck strategy gets repr(C) with align(layout alignment), whether or
\* not any Padding Entry was produced, and every other struct gets plain
\* repr(C).
C7_AlignOverrideIffHostShareableBytemuck ==
  pc = "built" =>
    /\ has_rts_array => out[1].repr_c = [repr |-> "", align |-> None]
    /\ (~has_rts_array /\ is_host_sharable
          /\ options.serialization_strategy = "Bytemuck") =>
         out[1].repr_c = [repr |-> "C", align |-> Some(layout.alignment)]
    /\ (~has_rts_array
          /\ ~(is_host_sharable
                 /\ options.serialization_strategy = "Bytemuck")) =>
         out[1].repr_c = [repr |-> "C", align |-> None]

C7_Witness ==
  /\ pc = "built"
  /\ ~has_rts_array
  /\ is_host_sharable
  /\ options.serialization_strategy = "Bytemuck"
  /\ ~SomePaddingEntry
  /\ out[1].repr_c.align = Some(layout.alignment)

\* C8: no Padding Entry is attached to any member of a struct derived with
\* directly-shareable = false, nor to a member that is the unbounded
\* trailing array; build then emits no padding field for it either.
C8_NoPaddingUnlessDirectlyShareableAndSized ==
  /\ \A i \in 1..Len(state.members) :
       (~is_directly_sharable \/ naga_members[i].ty = "RtsArray") =>
         state.members[i].padding = None
  /\ pc = "built" =>
       \A k \in 1..Len(out[1].fields) :
         out[1].fields[k].kind = "pad" =>
           /\ is_directly_sharable
           /\ k > 1
           /\ out[1].fields[k - 1].kind = "member"
           /\ out[1].fields[k - 1].ty \notin {"[f32; N]", "Vec<f32>"}

\* A member whose aligned host size differs from its gap was derived
\* without padding because the struct is not directly shareable.
C8_Witness ==
  /\ pc = "built"
  /\ ~is_directly_sharable
  /\ \E i \in 1..Len(members) :
       /\ naga_members[i].ty /= "RtsArray"
       /\ size_after_alignment(rust_type(naga_members[i].ty, options))
            /= Some(Gap(i))
       /\ members[i].padding = None

\* C9: build emits the Init struct and its conversions only when the
\* struct is host-shareable and has at least one Padding Entry.
C9_InitOnlyIfHostShareableAndPadded ==
  pc = "built" =>
    (IsSome(out[1].init_struct) => (is_host_sharable /\ SomePaddingEntry))

C9_Witness ==
  /\ pc = "built"
  /\ IsSome(out[1].init_struct)
  /\ is_host_sharable
  /\ SomePaddingEntry

\* Assignments of real-field values to the members' names.
RealFieldValues ==
  [{naga_members[i].name : i \in 1..Len(naga_members)} -> FieldValues]

\* C10: whenever the Init form exists, const_into and new, given the same
\* real-field values, build instances equal field by field: one field per
\* emitted field of the struct in the same order, every real field equal to
\* the supplied value and every padding field an array of zeros.
C10_ConstIntoEqualsNew ==
  (pc = "built" /\ IsSome(out[1].init_struct)) =>
    \A vals \in RealFieldValues :
      LET from_init ==
            eval_struct_literal(out[1].init_struct[1].mem_assignments, vals)
          from_new ==
            eval_struct_literal(out[1].struct_new_fn.member_assignments, vals)
          fields == out[1].fields
      IN /\ from_init = from_new
         /\ Len(from_init) = Len(fields)
         /\ \A k \in 1..Len(fields) :
              /\ from_init[k].field = fields[k].name
              /\ fields[k].kind = "member" =>
                   from_init[k].value = <<"value", vals[fields[k].name]>>
              /\ fields[k].kind = "pad" =>
                   from_init[k].value[1] = "zeros"

C10_Witness ==
  /\ pc = "built"
  /\ IsSome(out[1].init_struct)
  /\ Len(members) >= 2
  /\ Len(out[1].fields) > Len(members)

\* The scenario's input: a: vec3<f32> at offset 0 and b: f32 at offset 16,
\* total size 32, directly shareable, Bytemuck strategy, fallback mapping.
IsExampleStruct ==
  /\ naga_members = <<[name |-> "a", ty |-> "Vec3f", offset |-> 0],
                      [name |-> "b", ty |-> "f32", offset |-> 16]>>
  /\ layout.size = 32
  /\ is_directly_sharable
  /\ options.serialization_strategy = "Bytemuck"
  /\ options.type_map = "WgslRustTypeMap"

\* C11: for the struct a: Vec3f at offset 0, b: f32 at offset 16, total
\* size 32 (directly shareable, Bytemuck, fallback mapping) the emitted
\* fields are a, a padding of 4 bytes, b and a trailing padding of 12
\* bytes, and their sizes sum to 32.
C11_ExampleEmitsPaddingAfterBothMembers ==
  (pc = "built" /\ IsExampleStruct) =>
    LET fields == out[1].fields IN
      /\ Len(fields) = 4
      /\ fields[1].kind = "member" /\ fields[1].name = "a"
      /\ fields[2].kind = "pad" /\ field_size(fields[2]) = Some(4)
      /\ fields[3].kind = "member" /\ fields[3].name = "b"
      /\ fields[4].kind = "pad" /\ field_size(fields[4]) = Some(12)
      /\ cumulative_size(fields, Len(fields)) = Some(32)

\* The compile-time element-count parameter is present in a fragment.
IsGenericFragment(fragment) ==
  fragment \in {"<N>", "<const N: usize>", "impl<const N:usize>"}

\* The name and impl fragments of one generated item.
FragmentsOf(item) == {item.impl_fragment, item.name_usage}

\* C12: the struct definition, the constructor impl, the Zeroable/Pod impls
\* and the Init form carry the compile-time element-count parameter exactly
\* when the struct has an unbounded trailing array and the strategy is
\* Bytemuck; a member is annotated as runtime-sized exactly when it is the
\* unbounded member and the strategy is Encase.
C12_GenericParameterPolicy ==
  pc = "built" =>
    LET generic ==
          HasUnbounded /\ options.serialization_strategy = "Bytemuck"
        o == out[1]
    IN /\ IsGenericFragment(o.struct_name_def) <=> generic
       /\ o.struct_name_def \in {"", "<const N: usize>"}
       /\ \A f \in FragmentsOf(o.struct_new_fn) :
            IsGenericFragment(f) <=> generic
       /\ \A k \in 1..Len(o.unsafe_bytemuck_pod_impl) :
            \A f \in FragmentsOf(o.unsafe_bytemuck_pod_impl[k]) :
              IsGenericFragment(f) <=> generic
       /\ IsSome(o.init_struct) =>
            \A f \in FragmentsOf(o.init_struct[1])
                       \cup {o.init_struct[1].name_def} :
              IsGenericFragment(f) <=> generic
       /\ \A k \in 1..Len(o.fields) :
            o.fields[k].kind = "member" =>
              (o.fields[k].runtime_size_attribute
                 <=> (/\ options.serialization_strategy = "Encase"
                      /\ \E i \in 1..Len(naga_members) :
                           /\ naga_members[i].name = o.fields[k].name
                           /\ naga_members[i].ty = "RtsArray"))

\* A Bytemuck struct with a trailing unbounded array and a padding: the
\* struct, new, the Pod impls and the Init form are all generated.
C12_Witness ==
  /\ pc = "built"
  /\ HasUnbounded
  /\ options.serialization_strategy = "Bytemuck"
  /\ IsSome(out[1].init_struct)
  /\ Len(out[1].unsafe_bytemuck_pod_impl) = 2
  /\ out[1].struct_name_def = "<const N: usize>"

====
